---- MODULE Spec2Model ----
\* Model of launch_instance.py (interactive launcher with capacity polling)
\* and of pytorch_gpu_test.py.  One action per prompt iteration or loop step
\* of main(); the provider's answers and the operator's inputs are drawn from
\* small sets.
EXTENDS Integers, Sequences, FiniteSets, TLC

\* ------------------------------------------------------------------ bounds
\* capacity polls (GET instance-types inside the launch loop) per run
MaxPolls == 3

\* ------------------------------------------------------- static catalog
INSTANCE_TYPES_AND_REGIONS ==
    [ gpu_8x_h100_sxm5 |-> <<"us-west-3">>,
      gpu_1x_h100_pcie |-> <<"us-west-3">>,
      gpu_8x_a100_80gb_sxm4 |-> <<"us-midwest-1">>,
      gpu_1x_a10 |-> <<"us-east-1", "us-west-1">>,
      gpu_1x_rtx6000 |-> <<"us-south-1">>,
      gpu_1x_a100 |-> <<"us-south-1">>,
      gpu_1x_a100_sxm4 |-> <<"us-east-1", "us-west-2", "asia-south-1">>,
      gpu_2x_a100 |-> <<"us-south-1">>,
      gpu_4x_a100 |-> <<"us-south-1">>,
      gpu_8x_a100 |-> <<"me-west-1", "asia-northeast-2", "us-west-2",
                        "us-west-1", "europe-central-1", "asia-northeast-1",
                        "us-east-1">>,
      gpu_1x_a6000 |-> <<"us-south-1">>,
      gpu_2x_a6000 |-> <<"us-south-1">>,
      gpu_4x_a6000 |-> <<"us-south-1">>,
      gpu_8x_v100 |-> <<"us-south-1">>,
      cpu_4x_general |-> <<"not available">>,
      gpu_8x_h100_sxm5raidz1 |-> <<"us-south-2">> ]

\* membership of a value in a Python list
InList(x, lst) == \E i \in 1..Len(lst) : lst[i] = x

\* list(INSTANCE_TYPES_AND_REGIONS.keys()), in insertion order
get_instance_types ==
    << "gpu_8x_h100_sxm5", "gpu_1x_h100_pcie", "gpu_8x_a100_80gb_sxm4",
       "gpu_1x_a10", "gpu_1x_rtx6000", "gpu_1x_a100", "gpu_1x_a100_sxm4",
       "gpu_2x_a100", "gpu_4x_a100", "gpu_8x_a100", "gpu_1x_a6000",
       "gpu_2x_a6000", "gpu_4x_a6000", "gpu_8x_v100", "cpu_4x_general",
       "gpu_8x_h100_sxm5raidz1" >>

NOT_FOUND == "Instance type not found"

\* line 58 returned as is: None when the type is not a key
get_regions_or_none(instance_type) ==
    IF instance_type \in DOMAIN INSTANCE_TYPES_AND_REGIONS
    THEN [found |-> TRUE, regions |-> INSTANCE_TYPES_AND_REGIONS[instance_type],
          text |-> ""]
    ELSE [found |-> FALSE, regions |-> <<>>, text |-> "None"]

\* INSTANCE_TYPES_AND_REGIONS.get(instance_type); a non-empty list is
\* returned as is, None or an empty list gives the not-found string.
\* The result is tagged: [found, regions, text].
get_regions_for_instance_type(instance_type) ==
    IF instance_type \in DOMAIN INSTANCE_TYPES_AND_REGIONS
       /\ Len(INSTANCE_TYPES_AND_REGIONS[instance_type]) > 0
    THEN [found |-> TRUE, regions |-> INSTANCE_TYPES_AND_REGIONS[instance_type],
          text |-> ""]
    ELSE [found |-> FALSE, regions |-> <<>>, text |-> NOT_FOUND]

\* --------------------------------------------------- operator's inputs
UNBOUND == "<unbound>"                 \* a local that was not assigned yet
NONE == [isNone |-> TRUE, val |-> ""]  \* Python None
Str(v) == [isNone |-> FALSE, val |-> v]

\* sys.get_int_max_str_digits(): the most digits int() converts
INT_MAX_STR_DIGITS == 4300

ApiKeyInputs == {"key-1"}
TypeInputs == {"gpu_1x_a10", "gpu_8x_h100_sxm5", "gpu_9x_bogus"}
RegionInputs == {"", "us-east-1", "us-west-3", "mars-1"}
SshKeyInputs == {"k1", "zz"}
UseFilesystemInputs == {"y", "N", "maybe"}
FilesystemInputs == {"fs1", "nofs"}
\* a typed line is a sequence of characters where its characters matter.  A
\* printing ASCII or Latin-1 character is written as itself, tab, newline,
\* form feed and carriage return as "\t", "\n", "\f" and "\r", and any other
\* character by its code point: "U+0663" is ARABIC-INDIC DIGIT THREE.
\* The last line is one digit longer than int() converts.
QuantityInputs == { <<"0">>, <<"1">>, <<"9">>, <<"1", "0">>, <<"0", "7">>,
                    <<"a">>, <<>>, <<"U+0663">>, <<"U+0664", "U+0662">>,
                    <<"²">>, <<"U+2461">>,
                    [i \in 1..(INT_MAX_STR_DIGITS + 1) |-> "0"] }

\* str.lower() on the answers that are typed
lower(s) == CASE s = "Y" -> "y" [] s = "N" -> "n" [] OTHER -> s

\* every decimal digit character (Unicode 14.0 category Nd, the characters
\* int() reads), one tuple per script, from the digit zero to the digit nine
DecimalDigitBlocks == {
    << "0", "1", "2", "3", "4", "5", "6", "7", "8", "9" >>,
    << "U+0660", "U+0661", "U+0662", "U+0663", "U+0664", "U+0665", "U+0666", "U+0667", "U+0668", "U+0669" >>,
    << "U+06F0", "U+06F1", "U+06F2", "U+06F3", "U+06F4", "U+06F5", "U+06F6", "U+06F7", "U+06F8", "U+06F9" >>,
    << "U+07C0", "U+07C1", "U+07C2", "U+07C3", "U+07C4", "U+07C5", "U+07C6", "U+07C7", "U+07C8", "U+07C9" >>,
    << "U+0966", "U+0967", "U+0968", "U+0969", "U+096A", "U+096B", "U+096C", "U+096D", "U+096E", "U+096F" >>,
    << "U+09E6", "U+09E7", "U+09E8", "U+09E9", "U+09EA", "U+09EB", "U+09EC", "U+09ED", "U+09EE", "U+09EF" >>,
    << "U+0A66", "U+0A67", "U+0A68", "U+0A69", "U+0A6A", "U+0A6B", "U+0A6C", "U+0A6D", "U+0A6E", "U+0A6F" >>,
    << "U+0AE6", "U+0AE7", "U+0AE8", "U+0AE9", "U+0AEA", "U+0AEB", "U+0AEC", "U+0AED", "U+0AEE", "U+0AEF" >>,
    << "U+0B66", "U+0B67", "U+0B68", "U+0B69", "U+0B6A", "U+0B6B", "U+0B6C", "U+0B6D", "U+0B6E", "U+0B6F" >>,
    << "U+0BE6", "U+0BE7", "U+0BE8", "U+0BE9", "U+0BEA", "U+0BEB", "U+0BEC", "U+0BED", "U+0BEE", "U+0BEF" >>,
    << "U+0C66", "U+0C67", "U+0C68", "U+0C69", "U+0C6A", "U+0C6B", "U+0C6C", "U+0C6D", "U+0C6E", "U+0C6F" >>,
    << "U+0CE6", "U+0CE7", "U+0CE8", "U+0CE9", "U+0CEA", "U+0CEB", "U+0CEC", "U+0CED", "U+0CEE", "U+0CEF" >>,
    << "U+0D66", "U+0D67", "U+0D68", "U+0D69", "U+0D6A", "U+0D6B", "U+0D6C", "U+0D6D", "U+0D6E", "U+0D6F" >>,
    << "U+0DE6", "U+0DE7", "U+0DE8", "U+0DE9", "U+0DEA", "U+0DEB", "U+0DEC", "U+0DED", "U+0DEE", "U+0DEF" >>,
    << "U+0E50", "U+0E51", "U+0E52", "U+0E53", "U+0E54", "U+0E55", "U+0E56", "U+0E57", "U+0E58", "U+0E59" >>,
    << "U+0ED0", "U+0ED1", "U+0ED2", "U+0ED3", "U+0ED4", "U+0ED5", "U+0ED6", "U+0ED7", "U+0ED8", "U+0ED9" >>,
    << "U+0F20", "U+0F21", "U+0F22", "U+0F23", "U+0F24", "U+0F25", "U+0F26", "U+0F27", "U+0F28", "U+0F29" >>,
    << "U+1040", "U+1041", "U+1042", "U+1043", "U+1044", "U+1045", "U+1046", "U+1047", "U+1048", "U+1049" >>,
    << "U+1090", "U+1091", "U+1092", "U+1093", "U+1094", "U+1095", "U+1096", "U+1097", "U+1098", "U+1099" >>,
    << "U+17E0", "U+17E1", "U+17E2", "U+17E3", "U+17E4", "U+17E5", "U+17E6", "U+17E7", "U+17E8", "U+17E9" >>,
    << "U+1810", "U+1811", "U+1812", "U+1813", "U+1814", "U+1815", "U+1816", "U+1817", "U+1818", "U+1819" >>,
    << "U+1946", "U+1947", "U+1948", "U+1949", "U+194A", "U+194B", "U+194C", "U+194D", "U+194E", "U+194F" >>,
    << "U+19D0", "U+19D1", "U+19D2", "U+19D3", "U+19D4", "U+19D5", "U+19D6", "U+19D7", "U+19D8", "U+19D9" >>,
    << "U+1A80", "U+1A81", "U+1A82", "U+1A83", "U+1A84", "U+1A85", "U+1A86", "U+1A87", "U+1A88", "U+1A89" >>,
    << "U+1A90", "U+1A91", "U+1A92", "U+1A93", "U+1A94", "U+1A95", "U+1A96", "U+1A97", "U+1A98", "U+1A99" >>,
    << "U+1B50", "U+1B51", "U+1B52", "U+1B53", "U+1B54", "U+1B55", "U+1B56", "U+1B57", "U+1B58", "U+1B59" >>,
    << "U+1BB0", "U+1BB1", "U+1BB2", "U+1BB3", "U+1BB4", "U+1BB5", "U+1BB6", "U+1BB7", "U+1BB8", "U+1BB9" >>,
    << "U+1C40", "U+1C41", "U+1C42", "U+1C43", "U+1C44", "U+1C45", "U+1C46", "U+1C47", "U+1C48", "U+1C49" >>,
    << "U+1C50", "U+1C51", "U+1C52", "U+1C53", "U+1C54", "U+1C55", "U+1C56", "U+1C57", "U+1C58", "U+1C59" >>,
    << "U+A620", "U+A621", "U+A622", "U+A623", "U+A624", "U+A625", "U+A626", "U+A627", "U+A628", "U+A629" >>,
    << "U+A8D0", "U+A8D1", "U+A8D2", "U+A8D3", "U+A8D4", "U+A8D5", "U+A8D6", "U+A8D7", "U+A8D8", "U+A8D9" >>,
    << "U+A900", "U+A901", "U+A902", "U+A903", "U+A904", "U+A905", "U+A906", "U+A907", "U+A908", "U+A909" >>,
    << "U+A9D0", "U+A9D1", "U+A9D2", "U+A9D3", "U+A9D4", "U+A9D5", "U+A9D6", "U+A9D7", "U+A9D8", "U+A9D9" >>,
    << "U+A9F0", "U+A9F1", "U+A9F2", "U+A9F3", "U+A9F4", "U+A9F5", "U+A9F6", "U+A9F7", "U+A9F8", "U+A9F9" >>,
    << "U+AA50", "U+AA51", "U+AA52", "U+AA53", "U+AA54", "U+AA55", "U+AA56", "U+AA57", "U+AA58", "U+AA59" >>,
    << "U+ABF0", "U+ABF1", "U+ABF2", "U+ABF3", "U+ABF4", "U+ABF5", "U+ABF6", "U+ABF7", "U+ABF8", "U+ABF9" >>,
    << "U+FF10", "U+FF11", "U+FF12", "U+FF13", "U+FF14", "U+FF15", "U+FF16", "U+FF17", "U+FF18", "U+FF19" >>,
    << "U+104A0", "U+104A1", "U+104A2", "U+104A3", "U+104A4", "U+104A5", "U+104A6", "U+104A7", "U+104A8", "U+104A9" >>,
    << "U+10D30", "U+10D31", "U+10D32", "U+10D33", "U+10D34", "U+10D35", "U+10D36", "U+10D37", "U+10D38", "U+10D39" >>,
    << "U+11066", "U+11067", "U+11068", "U+11069", "U+1106A", "U+1106B", "U+1106C", "U+1106D", "U+1106E", "U+1106F" >>,
    << "U+110F0", "U+110F1", "U+110F2", "U+110F3", "U+110F4", "U+110F5", "U+110F6", "U+110F7", "U+110F8", "U+110F9" >>,
    << "U+11136", "U+11137", "U+11138", "U+11139", "U+1113A", "U+1113B", "U+1113C", "U+1113D", "U+1113E", "U+1113F" >>,
    << "U+111D0", "U+111D1", "U+111D2", "U+111D3", "U+111D4", "U+111D5", "U+111D6", "U+111D7", "U+111D8", "U+111D9" >>,
    << "U+112F0", "U+112F1", "U+112F2", "U+112F3", "U+112F4", "U+112F5", "U+112F6", "U+112F7", "U+112F8", "U+112F9" >>,
    << "U+11450", "U+11451", "U+11452", "U+11453", "U+11454", "U+11455", "U+11456", "U+11457", "U+11458", "U+11459" >>,
    << "U+114D0", "U+114D1", "U+114D2", "U+114D3", "U+114D4", "U+114D5", "U+114D6", "U+114D7", "U+114D8", "U+114D9" >>,
    << "U+11650", "U+11651", "U+11652", "U+11653", "U+11654", "U+11655", "U+11656", "U+11657", "U+11658", "U+11659" >>,
    << "U+116C0", "U+116C1", "U+116C2", "U+116C3", "U+116C4", "U+116C5", "U+116C6", "U+116C7", "U+116C8", "U+116C9" >>,
    << "U+11730", "U+11731", "U+11732", "U+11733", "U+11734", "U+11735", "U+11736", "U+11737", "U+11738", "U+11739" >>,
    << "U+118E0", "U+118E1", "U+118E2", "U+118E3", "U+118E4", "U+118E5", "U+118E6", "U+118E7", "U+118E8", "U+118E9" >>,
    << "U+11950", "U+11951", "U+11952", "U+11953", "U+11954", "U+11955", "U+11956", "U+11957", "U+11958", "U+11959" >>,
    << "U+11C50", "U+11C51", "U+11C52", "U+11C53", "U+11C54", "U+11C55", "U+11C56", "U+11C57", "U+11C58", "U+11C59" >>,
    << "U+11D50", "U+11D51", "U+11D52", "U+11D53", "U+11D54", "U+11D55", "U+11D56", "U+11D57", "U+11D58", "U+11D59" >>,
    << "U+11DA0", "U+11DA1", "U+11DA2", "U+11DA3", "U+11DA4", "U+11DA5", "U+11DA6", "U+11DA7", "U+11DA8", "U+11DA9" >>,
    << "U+16A60", "U+16A61", "U+16A62", "U+16A63", "U+16A64", "U+16A65", "U+16A66", "U+16A67", "U+16A68", "U+16A69" >>,
    << "U+16AC0", "U+16AC1", "U+16AC2", "U+16AC3", "U+16AC4", "U+16AC5", "U+16AC6", "U+16AC7", "U+16AC8", "U+16AC9" >>,
    << "U+16B50", "U+16B51", "U+16B52", "U+16B53", "U+16B54", "U+16B55", "U+16B56", "U+16B57", "U+16B58", "U+16B59" >>,
    << "U+1D7CE", "U+1D7CF", "U+1D7D0", "U+1D7D1", "U+1D7D2", "U+1D7D3", "U+1D7D4", "U+1D7D5", "U+1D7D6", "U+1D7D7" >>,
    << "U+1D7D8", "U+1D7D9", "U+1D7DA", "U+1D7DB", "U+1D7DC", "U+1D7DD", "U+1D7DE", "U+1D7DF", "U+1D7E0", "U+1D7E1" >>,
    << "U+1D7E2", "U+1D7E3", "U+1D7E4", "U+1D7E5", "U+1D7E6", "U+1D7E7", "U+1D7E8", "U+1D7E9", "U+1D7EA", "U+1D7EB" >>,
    << "U+1D7EC", "U+1D7ED", "U+1D7EE", "U+1D7EF", "U+1D7F0", "U+1D7F1", "U+1D7F2", "U+1D7F3", "U+1D7F4", "U+1D7F5" >>,
    << "U+1D7F6", "U+1D7F7", "U+1D7F8", "U+1D7F9", "U+1D7FA", "U+1D7FB", "U+1D7FC", "U+1D7FD", "U+1D7FE", "U+1D7FF" >>,
    << "U+1E140", "U+1E141", "U+1E142", "U+1E143", "U+1E144", "U+1E145", "U+1E146", "U+1E147", "U+1E148", "U+1E149" >>,
    << "U+1E2F0", "U+1E2F1", "U+1E2F2", "U+1E2F3", "U+1E2F4", "U+1E2F5", "U+1E2F6", "U+1E2F7", "U+1E2F8", "U+1E2F9" >>,
    << "U+1E950", "U+1E951", "U+1E952", "U+1E953", "U+1E954", "U+1E955", "U+1E956", "U+1E957", "U+1E958", "U+1E959" >>,
    << "U+1FBF0", "U+1FBF1", "U+1FBF2", "U+1FBF3", "U+1FBF4", "U+1FBF5", "U+1FBF6", "U+1FBF7", "U+1FBF8", "U+1FBF9" >> }

DecimalDigits == UNION { { b[i] : i \in DOMAIN b } : b \in DecimalDigitBlocks }

\* the value of a decimal digit: its place in the tuple of its script
DigitValue ==
    [c \in DecimalDigits |->
        (CHOOSE i \in 1..10 : \E b \in DecimalDigitBlocks : b[i] = c) - 1]

\* every digit character that is not decimal (superscripts, subscripts,
\* circled and parenthesized digits, ...): str.isdigit() holds, int() raises
NonDecimalDigits == {
    "²", "³", "¹", "U+1369", "U+136A", "U+136B", "U+136C", "U+136D", "U+136E",
    "U+136F", "U+1370", "U+1371", "U+19DA", "U+2070", "U+2074", "U+2075",
    "U+2076", "U+2077", "U+2078", "U+2079", "U+2080", "U+2081", "U+2082",
    "U+2083", "U+2084", "U+2085", "U+2086", "U+2087", "U+2088", "U+2089",
    "U+2460", "U+2461", "U+2462", "U+2463", "U+2464", "U+2465", "U+2466",
    "U+2467", "U+2468", "U+2474", "U+2475", "U+2476", "U+2477", "U+2478",
    "U+2479", "U+247A", "U+247B", "U+247C", "U+2488", "U+2489", "U+248A",
    "U+248B", "U+248C", "U+248D", "U+248E", "U+248F", "U+2490", "U+24EA",
    "U+24F5", "U+24F6", "U+24F7", "U+24F8", "U+24F9", "U+24FA", "U+24FB",
    "U+24FC", "U+24FD", "U+24FF", "U+2776", "U+2777", "U+2778", "U+2779",
    "U+277A", "U+277B", "U+277C", "U+277D", "U+277E", "U+2780", "U+2781",
    "U+2782", "U+2783", "U+2784", "U+2785", "U+2786", "U+2787", "U+2788",
    "U+278A", "U+278B", "U+278C", "U+278D", "U+278E", "U+278F", "U+2790",
    "U+2791", "U+2792", "U+10A40", "U+10A41", "U+10A42", "U+10A43", "U+10E60",
    "U+10E61", "U+10E62", "U+10E63", "U+10E64", "U+10E65", "U+10E66",
    "U+10E67", "U+10E68", "U+11052", "U+11053", "U+11054", "U+11055",
    "U+11056", "U+11057", "U+11058", "U+11059", "U+1105A", "U+1F100",
    "U+1F101", "U+1F102", "U+1F103", "U+1F104", "U+1F105", "U+1F106",
    "U+1F107", "U+1F108", "U+1F109", "U+1F10A" }

\* str.isdigit(): at least one character and all of them digits, decimal or
\* not
isdigit(s) ==
    /\ Len(s) > 0
    /\ \A i \in 1..Len(s) : s[i] \in DecimalDigits \/ s[i] \in NonDecimalDigits

\* every character str.isspace() holds of
Whitespace == {
    "\t", "\n", "U+000B", "\f", "\r", "U+001C", "U+001D", "U+001E", "U+001F",
    " ", "U+0085", "U+00A0", "U+1680", "U+2000", "U+2001", "U+2002", "U+2003",
    "U+2004", "U+2005", "U+2006", "U+2007", "U+2008", "U+2009", "U+200A",
    "U+2028", "U+2029", "U+202F", "U+205F", "U+3000" }

\* int() skips the same characters but the four information separators
IntWhitespace == Whitespace \ { "U+001C", "U+001D", "U+001E", "U+001F" }

\* leading, trailing characters of a set removed: what is left starts at the
\* first, ends at the last character that is not in the set
lstrip(s, chars) ==
    LET kept == { i \in 1..Len(s) : s[i] \notin chars }
    IN  IF kept = {} THEN <<>>
        ELSE SubSeq(s, CHOOSE i \in kept : \A j \in kept : i <= j, Len(s))
rstrip(s, chars) ==
    LET kept == { i \in 1..Len(s) : s[i] \notin chars }
    IN  IF kept = {} THEN <<>>
        ELSE SubSeq(s, 1, CHOOSE i \in kept : \A j \in kept : j <= i)

\* str.strip(): leading and trailing whitespace removed
strip(s) == rstrip(lstrip(s, Whitespace), Whitespace)

\* the value of a string of decimal digits
RECURSIVE DecimalValue(_)
DecimalValue(s) ==
    IF Len(s) = 0 THEN 0
    ELSE 10 * DecimalValue(SubSeq(s, 1, Len(s) - 1)) + DigitValue[s[Len(s)]]

IsUnderscore(c) == c = "_"
IsDecimalDigit(c) == c \in DecimalDigits
\* the digit zero of every script
ZeroDigits == { b[1] : b \in DecimalDigitBlocks }

\* int(s): surrounding whitespace and one sign are allowed, then decimal
\* digits with single underscores between them, at most INT_MAX_STR_DIGITS
\* digits (leading zeros count, underscores do not); anything else raises
\* ValueError.  The result is tagged: [raised, value].
int(s) ==
    LET n_digits == Cardinality({ i \in 1..Len(s) : IsDecimalDigit(s[i]) })
        t == rstrip(lstrip(s, IntWhitespace), IntWhitespace)
        signed == Len(t) > 0 /\ t[1] \in {"+", "-"}
        body == IF signed THEN Tail(t) ELSE t
        ok == /\ Len(body) > 0
              /\ \A i \in 1..Len(body) :
                    IsDecimalDigit(body[i]) \/ IsUnderscore(body[i])
              /\ ~ IsUnderscore(body[1])
              /\ ~ IsUnderscore(body[Len(body)])
              /\ \A i \in 1..(Len(body) - 1) :
                    ~ (IsUnderscore(body[i]) /\ IsUnderscore(body[i + 1]))
        digits == SelectSeq(body, IsDecimalDigit)
        magnitude == DecimalValue(lstrip(digits, ZeroDigits))
    IN  IF n_digits <= INT_MAX_STR_DIGITS /\ ok
        THEN [raised |-> "no",
              value |-> IF t[1] = "-" THEN 0 - magnitude ELSE magnitude]
        ELSE [raised |-> "ValueError", value |-> 0]

\* ------------------------------------------------- provider's answers
INSUFFICIENT_CAPACITY == "instance-operations/launch/insufficient-capacity"
INVALID_PARAMETERS == "global/invalid-parameters"
FALLBACK_REGION == "us-south-1"
FALLBACK_INSTANCE_TYPE == "gpu_8x_h100_sxm5"

\* response.json() of POST instance-operations/launch: a JSON object with
\* optional keys data, error (with an optional code) and success; or the
\* call raises (timeout in requests.post, non-JSON body in response.json()).
NoError == [present |-> FALSE, code |-> NONE]
ErrorValues == { NoError,
                 [present |-> TRUE, code |-> Str(INSUFFICIENT_CAPACITY)],
                 [present |-> TRUE, code |-> Str(INVALID_PARAMETERS)],
                 [present |-> TRUE, code |-> NONE] }
JsonLaunchResponses ==
    [ raised : {"no"}, data : BOOLEAN, error : ErrorValues,
      success : {"absent", "truthy", "falsy"} ]
RaisedLaunchResponses ==
    [ raised : {"Timeout", "JSONDecodeError"}, data : {FALSE},
      error : {NoError}, success : {"absent"} ]
LaunchResponses == JsonLaunchResponses \cup RaisedLaunchResponses
NoResponse == [ raised |-> "pending", data |-> FALSE, error |-> NoError,
                success |-> "absent" ]

\* response.json() of GET instance-types: {"data": {type: details}} where
\* details has (or lacks) the keys instance_type and
\* regions_with_capacity_available (a list of {"name": region}).
Details(hasType, hasRegions, regs) ==
    [ instance_type |-> hasType, regions_key |-> hasRegions, regions |-> regs ]
A10 == "gpu_1x_a10"
H100 == "gpu_8x_h100_sxm5"
Snapshot(r, d, m) == [ raised |-> r, data |-> d, types |-> m ]
NoTypes == [ t \in {} |-> Details(TRUE, TRUE, <<>>) ]
InstanceTypeResponses ==
    { Snapshot("Timeout", FALSE, NoTypes),
      Snapshot("JSONDecodeError", FALSE, NoTypes),
      Snapshot("no", FALSE, NoTypes),            \* {"error": ...}
      Snapshot("no", TRUE, NoTypes),             \* {"data": {}}
      Snapshot("no", TRUE, [t \in {A10} |-> Details(TRUE, TRUE, <<>>)]),
      Snapshot("no", TRUE, [t \in {A10} |-> Details(TRUE, TRUE, <<"us-west-1">>)]),
      Snapshot("no", TRUE, [t \in {H100} |-> Details(TRUE, TRUE, <<"us-west-3">>)]),
      Snapshot("no", TRUE, [t \in {H100} |-> Details(FALSE, FALSE, <<>>)]),
      Snapshot("no", TRUE, [t \in {A10, H100} |->
          IF t = A10 THEN Details(TRUE, TRUE, <<"us-west-1", "us-east-1">>)
                     ELSE Details(TRUE, FALSE, <<>>)]),
      Snapshot("no", TRUE, [t \in {A10, H100} |->
          IF t = A10 THEN Details(TRUE, TRUE, <<"us-east-1">>)
                     ELSE Details(TRUE, TRUE, <<"us-east-1", "us-west-3">>)]) }
NoSnapshot == Snapshot("pending", FALSE, NoTypes)

\* GET ssh-keys / file-systems: the names of data['data'], or the call raises
\* (KeyError when the body has no data key)
NameListResponses(names) ==
    { [raised |-> "Timeout", names |-> <<>>],
      [raised |-> "KeyError", names |-> <<>>],
      [raised |-> "no", names |-> <<>>],
      [raised |-> "no", names |-> names] }

\* ---------------------------------------------------------------- state
VARIABLES
    pc,                     \* position in main()
    exc,                    \* the exception that ended main(), or "none"
    out,                    \* the last message printed: [msg, error]
    api_key, desired_instance_type, region_name,
    ssh_key_names, ssh_key_name, filesystem_names, filesystem_name,
    quantity, number,
    launch_response, instance_data, continue_loop,
    request,                \* history: the inputs as validated (line 209)
    calls,                  \* history: launch, poll and sleep calls of the loop
    network_used,           \* history: some HTTP request was sent
    \* the catalog helpers called on their own
    catalog,                \* the dict INSTANCE_TYPES_AND_REGIONS
    lookup,                 \* the last helper call: [fn, arg, result, types]
    n_lookups,              \* helper calls made
    \* pytorch_gpu_test.py
    gpu_pc,                 \* position in its main()
    smi_stdout,             \* what nvidia-smi -L wrote
    smi_raised,             \* subprocess.run raised
    global_device_count, cuda_device_count,
    gpu_i,                  \* devices synchronised so far
    gpu_out                 \* the last message printed

mainvars == << pc, exc, out, api_key, desired_instance_type, region_name,
               ssh_key_names, ssh_key_name, filesystem_names, filesystem_name,
               quantity, number, launch_response, instance_data, continue_loop,
               request, calls, network_used >>
catvars == << catalog, lookup, n_lookups >>
gpuvars == << gpu_pc, smi_stdout, smi_raised, global_device_count,
              cuda_device_count, gpu_i, gpu_out >>
utilvars == << catvars, gpuvars >>
vars == << mainvars, catvars, gpuvars >>

inputs == << api_key, desired_instance_type, region_name, ssh_key_names,
             ssh_key_name, filesystem_names, filesystem_name, quantity,
             number >>
loopvars == << launch_response, instance_data, continue_loop, calls >>

Printed(m) == [msg |-> m, error |-> NoError]
PrintedError(e) == [msg |-> "Error launching instance:", error |-> e]
NoRequest == [ region |-> UNBOUND, instance_type |-> UNBOUND,
               ssh_key_name |-> UNBOUND, filesystem_name |-> NONE,
               quantity |-> <<>> ]

NoResult == [found |-> FALSE, regions |-> <<>>, text |-> ""]
NoLookup == [fn |-> "none", arg |-> "", result |-> NoResult, types |-> <<>>]

Init ==
    /\ pc = "api_key_input"
    /\ exc = "none"
    /\ out = Printed("Paste in your Lambda API key.")
    /\ api_key = UNBOUND
    /\ desired_instance_type = UNBOUND
    /\ region_name = UNBOUND
    /\ ssh_key_names = <<>>
    /\ ssh_key_name = UNBOUND
    /\ filesystem_names = <<>>
    /\ filesystem_name = NONE
    /\ quantity = <<>>
    /\ number = 0
    /\ launch_response = NoResponse
    /\ instance_data = NoSnapshot
    /\ continue_loop = TRUE
    /\ request = NoRequest
    /\ calls = <<>>
    /\ network_used = FALSE
    /\ catalog = INSTANCE_TYPES_AND_REGIONS
    /\ lookup = NoLookup
    /\ n_lookups = 0
    /\ gpu_pc = "get_gpu_count"
    /\ smi_stdout = <<>>
    /\ smi_raised = FALSE
    /\ global_device_count = 0
    /\ cuda_device_count = 0
    /\ gpu_i = 0
    /\ gpu_out = ""

\* an uncaught exception leaves main() with a traceback
Raise(e) == /\ pc' = "crashed"
            /\ exc' = e

\* ------------------------------------------------------ input collection
\* instance_data.get("data", {}) of a GET instance-types answer
instances_of(resp) == IF resp.data THEN resp.types ELSE NoTypes

\* get_valid_instance_types: list(instances.keys())
get_valid_instance_types(resp) == DOMAIN instances_of(resp)

\* lines 141-147: one iteration of the API key loop
ApiKeyInput ==
    /\ pc = "api_key_input"
    /\ \E k \in ApiKeyInputs, r \in InstanceTypeResponses :
         /\ api_key' = k
         /\ network_used' = TRUE
         /\ IF r.raised # "no"
            THEN Raise(r.raised) /\ UNCHANGED out
            ELSE IF get_valid_instance_types(r) = {}
            THEN /\ out' = Printed("API key is invalid or has no permissions.")
                 /\ UNCHANGED << pc, exc >>
            ELSE /\ out' = Printed("Available instance types:")
                 /\ pc' = "instance_type_input"
                 /\ UNCHANGED exc
    /\ UNCHANGED << desired_instance_type, region_name, ssh_key_names,
                    ssh_key_name, filesystem_names, filesystem_name, quantity,
                    number, request >>
    /\ UNCHANGED loopvars
    /\ UNCHANGED utilvars

\* lines 150-161: one iteration of the instance type loop
InstanceTypeInput ==
    /\ pc = "instance_type_input"
    /\ \E t \in TypeInputs :
         /\ desired_instance_type' = t
         /\ IF ~ InList(t, get_instance_types)
            THEN /\ out' = Printed("Invalid instance type. Please choose from the available types.")
                 /\ UNCHANGED pc
            ELSE /\ out' = Printed("Available regions for")
                 /\ pc' = "region_input"
    /\ UNCHANGED << exc, api_key, region_name, ssh_key_names, ssh_key_name,
                    filesystem_names, filesystem_name, quantity, number,
                    request, network_used >>
    /\ UNCHANGED loopvars
    /\ UNCHANGED utilvars

\* line 165: region_name != "" and region_name not in available_regions
\* (available_regions is a list here: the type was checked against the catalog)
RegionRejected(region, available_regions) ==
    region # "" /\ ~ InList(region, available_regions.regions)

\* lines 163-168: one iteration of the region loop
RegionInput ==
    /\ pc = "region_input"
    /\ \E r \in RegionInputs :
         /\ region_name' = r
         /\ IF RegionRejected(r, get_regions_for_instance_type(desired_instance_type))
            THEN /\ out' = Printed("Invalid region name. Please choose from the available regions.")
                 /\ UNCHANGED pc
            ELSE /\ pc' = "get_ssh_keys"
                 /\ UNCHANGED out
    /\ UNCHANGED << exc, api_key, desired_instance_type, ssh_key_names,
                    ssh_key_name, filesystem_names, filesystem_name, quantity,
                    number, request, network_used >>
    /\ UNCHANGED loopvars
    /\ UNCHANGED utilvars

\* lines 171-172: get_ssh_keys(api_key)
GetSshKeys ==
    /\ pc = "get_ssh_keys"
    /\ \E r \in NameListResponses(<<"k1">>) :
         IF r.raised # "no"
         THEN Raise(r.raised) /\ UNCHANGED << ssh_key_names, out >>
         ELSE /\ ssh_key_names' = r.names
              /\ out' = Printed("Available SSH keys:")
              /\ pc' = "ssh_key_input"
              /\ UNCHANGED exc
    /\ UNCHANGED << api_key, desired_instance_type, region_name, ssh_key_name,
                    filesystem_names, filesystem_name, quantity, number,
                    request, network_used >>
    /\ UNCHANGED loopvars
    /\ UNCHANGED utilvars

\* lines 173-178: one iteration of the SSH key loop
SshKeyInput ==
    /\ pc = "ssh_key_input"
    /\ \E k \in SshKeyInputs :
         /\ ssh_key_name' = k
         /\ IF InList(k, ssh_key_names)
            THEN /\ pc' = "use_filesystem_input"
                 /\ UNCHANGED out
            ELSE /\ out' = Printed("Invalid SSH key name. Please choose from the available SSH keys.")
                 /\ UNCHANGED pc
    /\ UNCHANGED << exc, api_key, desired_instance_type, region_name,
                    ssh_key_names, filesystem_names, filesystem_name, quantity,
                    number, request, network_used >>
    /\ UNCHANGED loopvars
    /\ UNCHANGED utilvars

\* lines 181-197: one iteration of the file system loop, up to the inner loop
UseFilesystemInput ==
    /\ pc = "use_filesystem_input"
    /\ \E a \in UseFilesystemInputs :
         IF lower(a) = "y"
         THEN \E r \in NameListResponses(<<"fs1">>) :
                IF r.raised # "no"
                THEN Raise(r.raised)
                     /\ UNCHANGED << filesystem_names, filesystem_name, out >>
                ELSE /\ filesystem_names' = r.names
                     /\ out' = Printed("Available file systems:")
                     /\ pc' = "filesystem_name_input"
                     /\ UNCHANGED << exc, filesystem_name >>
         ELSE IF lower(a) = "n"
         THEN /\ filesystem_name' = NONE
              /\ pc' = "quantity_input"
              /\ UNCHANGED << exc, out, filesystem_names >>
         ELSE /\ out' = Printed("Invalid input. Please enter 'y' or 'n'.")
              /\ UNCHANGED << pc, exc, filesystem_names, filesystem_name >>
    /\ UNCHANGED << api_key, desired_instance_type, region_name, ssh_key_names,
                    ssh_key_name, quantity, number, request, network_used >>
    /\ UNCHANGED loopvars
    /\ UNCHANGED utilvars

\* lines 186-192: one iteration of the file system name loop
FilesystemNameInput ==
    /\ pc = "filesystem_name_input"
    /\ \E f \in FilesystemInputs :
         /\ filesystem_name' = Str(f)
         /\ IF InList(f, filesystem_names)
            THEN /\ pc' = "quantity_input"
                 /\ UNCHANGED out
            ELSE /\ out' = Printed("Invalid filesystem name. Please choose from the available file systems.")
                 /\ UNCHANGED pc
    /\ UNCHANGED << exc, api_key, desired_instance_type, region_name,
                    ssh_key_names, ssh_key_name, filesystem_names, quantity,
                    number, request, network_used >>
    /\ UNCHANGED loopvars
    /\ UNCHANGED utilvars

\* lines 202-209: quantity.isdigit(), number = int(quantity) (which may
\* raise) and 1 <= number <= 9
QuantityCheck(q) ==
    IF ~ isdigit(q) THEN "reprompt"
    ELSE IF int(q).raised # "no" THEN int(q).raised
    ELSE IF 1 <= int(q).value /\ int(q).value <= 9 THEN "break"
    ELSE "reprompt"

\* lines 200-212: one iteration of the quantity loop
QuantityInput ==
    /\ pc = "quantity_input"
    /\ \E q \in QuantityInputs :
         /\ quantity' = q
         /\ number' = IF isdigit(q) /\ int(q).raised = "no"
                      THEN int(q).value ELSE number
         /\ CASE QuantityCheck(q) = "break" ->
                   /\ pc' = "launch_loop"
                   /\ request' = [ region |-> region_name,
                                   instance_type |-> desired_instance_type,
                                   ssh_key_name |-> ssh_key_name,
                                   filesystem_name |-> filesystem_name,
                                   quantity |-> q ]
                   /\ UNCHANGED << out, exc >>
              [] QuantityCheck(q) = "reprompt" ->
                   /\ out' = Printed("Invalid input. Please enter a number between 1 and 9.")
                   /\ UNCHANGED << pc, exc, request >>
              [] OTHER ->
                   /\ Raise(QuantityCheck(q))
                   /\ UNCHANGED << out, request >>
    /\ UNCHANGED << api_key, desired_instance_type, region_name,
                    ssh_key_names, ssh_key_name, filesystem_names,
                    filesystem_name, network_used >>
    /\ UNCHANGED loopvars
    /\ UNCHANGED utilvars

\* --------------------------------------------------------- launch loop
\* lines 108-114: the body of the launch request
launch_instance_data(region, instance_type, ssh_key, file_system_name, qty) ==
    [ region_name |-> region,
      instance_type_name |-> instance_type,
      ssh_key_names |-> << ssh_key >>,
      file_system_names |->
          IF ~ file_system_name.isNone /\ file_system_name.val # ""
          THEN << file_system_name.val >> ELSE <<>>,
      quantity |-> qty ]

NoLaunchData == launch_instance_data(UNBOUND, UNBOUND, UNBOUND, NONE, <<>>)
LaunchCall(d) == [ op |-> "launch", req |-> d, resp |-> NoResponse,
                   regions |-> <<>>, secs |-> 0 ]
PollCall(raised, regs) ==
    [ op |-> "poll", req |-> NoLaunchData,
      resp |-> [NoResponse EXCEPT !.raised = raised], regions |-> regs,
      secs |-> 0 ]
\* line 290: the argument of time.sleep
POLL_INTERVAL_SECONDS == 2
SleepCall == [ op |-> "sleep", req |-> NoLaunchData, resp |-> NoResponse,
               regions |-> <<>>, secs |-> POLL_INTERVAL_SECONDS ]

\* the request is sent and main() goes on without reading the answer of the
\* first launch
launch_instance_call_nowait(region, instance_type, ssh_key, at) ==
    /\ calls' = Append(calls, LaunchCall(
                   launch_instance_data(region, instance_type, ssh_key,
                                        filesystem_name, quantity)))
    /\ pc' = IF at = "await_fallback_launch" THEN "attempt_launch" ELSE at

\* lines 115-121: requests.post is sent; main() waits for its answer at `at`
launch_instance_call(region, instance_type, ssh_key, at) ==
    /\ calls' = Append(calls, LaunchCall(
                   launch_instance_data(region, instance_type, ssh_key,
                                        filesystem_name, quantity)))
    /\ pc' = at

\* lines 123-124: the answer of the pending launch arrives
launch_instance_return(r) ==
    calls' = [calls EXCEPT ![Len(calls)].resp = r]

\* the comparison of the code written with == in place of !=
IsTerminalErrorInverted(r) ==
    r.error.present /\ r.error.code = Str(INSUFFICIENT_CAPACITY)

\* lines 225-228 and 241-244: an error whose code is not insufficient-capacity
IsTerminalError(r) ==
    r.error.present /\ r.error.code # Str(INSUFFICIENT_CAPACITY)

\* lines 213-224: the loop is entered with an empty region
FallbackLaunchCall ==
    /\ pc = "launch_loop"
    /\ continue_loop
    /\ region_name = ""
    /\ region_name' = FALLBACK_REGION
    /\ desired_instance_type' = FALLBACK_INSTANCE_TYPE
    /\ launch_instance_call(FALLBACK_REGION, FALLBACK_INSTANCE_TYPE,
                            ssh_key_name, "await_fallback_launch")
    /\ UNCHANGED << exc, out, api_key, ssh_key_names, ssh_key_name,
                    filesystem_names, filesystem_name, quantity, number,
                    launch_response, instance_data, continue_loop, request,
                    network_used >>
    /\ UNCHANGED utilvars

\* lines 217-230: the answer to the launch of the empty-region branch
FallbackLaunchReturn ==
    /\ pc = "await_fallback_launch"
    /\ \E r \in LaunchResponses :
         /\ launch_instance_return(r)
         /\ IF r.raised # "no"
            THEN Raise(r.raised) /\ UNCHANGED << out, launch_response >>
            ELSE /\ launch_response' = r
                 /\ UNCHANGED exc
                 /\ IF IsTerminalError(r)
                    THEN out' = PrintedError(r.error) /\ pc' = "done"
                    ELSE pc' = "attempt_launch" /\ UNCHANGED out
    /\ UNCHANGED inputs
    /\ UNCHANGED << instance_data, continue_loop, request, network_used >>
    /\ UNCHANGED utilvars

\* lines 232-240: "Attempt to launch the instance"
AttemptLaunchCall ==
    /\ \/ pc = "attempt_launch"
       \/ pc = "launch_loop" /\ continue_loop /\ region_name # ""
    /\ launch_instance_call(region_name, desired_instance_type, ssh_key_name,
                            "await_attempt_launch")
    /\ UNCHANGED inputs
    /\ UNCHANGED << exc, out, launch_response, instance_data, continue_loop,
                    request, network_used >>
    /\ UNCHANGED utilvars

\* lines 233-250: the answer to that launch
AttemptLaunchReturn ==
    /\ pc = "await_attempt_launch"
    /\ \E r \in LaunchResponses :
         /\ launch_instance_return(r)
         /\ IF r.raised # "no"
            THEN Raise(r.raised) /\ UNCHANGED << out, launch_response >>
            ELSE /\ launch_response' = r
                 /\ UNCHANGED exc
                 /\ IF IsTerminalError(r)
                    THEN out' = PrintedError(r.error) /\ pc' = "done"
                    ELSE IF r.data
                    THEN out' = Printed("Launch response:") /\ pc' = "done"
                    ELSE pc' = "poll" /\ UNCHANGED out
    /\ UNCHANGED inputs
    /\ UNCHANGED << instance_data, continue_loop, request, network_used >>
    /\ UNCHANGED utilvars

\* bool(instance_details): instances.get(type) is a non-empty dict
HasDetails(resp, instance_type) ==
    /\ instance_type \in DOMAIN instances_of(resp)
    /\ \/ instances_of(resp)[instance_type].instance_type
       \/ instances_of(resp)[instance_type].regions_key

\* lines 257-259: the names of regions_with_capacity_available of the type
regions_available(resp, instance_type) ==
    IF HasDetails(resp, instance_type)
       /\ instances_of(resp)[instance_type].regions_key
    THEN instances_of(resp)[instance_type].regions
    ELSE <<>>

\* line 261 read as "if instance_details:" alone
ShouldRelaunchOnDetails(resp, instance_type) == HasDetails(resp, instance_type)

\* lines 258-261: details were found and list a region with capacity
ShouldRelaunch(resp, instance_type) ==
    regions_available(resp, instance_type) # <<>>

NumPolls == Cardinality({ i \in 1..Len(calls) : calls[i].op = "poll" })

\* lines 254-263 and 288-289: one capacity poll of the inner loop
PollCapacity ==
    /\ pc = "poll"
    /\ NumPolls < MaxPolls
    /\ \E r \in InstanceTypeResponses :
         IF r.raised # "no"
         THEN /\ Raise(r.raised)
              /\ calls' = Append(calls, PollCall(r.raised, <<>>))
              /\ UNCHANGED << out, instance_data, region_name >>
         ELSE /\ instance_data' = r
              /\ calls' = Append(calls,
                     PollCall("no", regions_available(r, desired_instance_type)))
              /\ UNCHANGED exc
              /\ IF ShouldRelaunch(r, desired_instance_type)
                 THEN /\ region_name' =
                           IF region_name = ""
                           THEN Head(regions_available(r, desired_instance_type))
                           ELSE region_name
                      /\ pc' = "ssh_key_reprompt"
                      /\ UNCHANGED out
                 ELSE /\ pc' = "sleep"
                      /\ out' = IF HasDetails(r, desired_instance_type)
                                THEN Printed("Instance type not found. Retrying in 2 seconds...")
                                ELSE out
                      /\ UNCHANGED region_name
    /\ UNCHANGED << api_key, desired_instance_type, ssh_key_names,
                    ssh_key_name, filesystem_names, filesystem_name, quantity,
                    number, launch_response, continue_loop, request,
                    network_used >>
    /\ UNCHANGED utilvars

\* the inner loop gives up after two polls
SleepWithMaxAttempts ==
    /\ pc = "sleep"
    /\ calls' = Append(calls, SleepCall)
    /\ pc' = IF NumPolls >= 2 THEN "done" ELSE "poll"
    /\ UNCHANGED inputs
    /\ UNCHANGED << exc, out, launch_response, instance_data, continue_loop,
                    request, network_used >>
    /\ UNCHANGED utilvars

\* time.sleep indented under the else of line 288: it runs only when the
\* details of the type were found
SleepOnlyWhenFound ==
    /\ pc = "sleep"
    /\ calls' = IF HasDetails(instance_data, desired_instance_type)
                THEN Append(calls, SleepCall) ELSE calls
    /\ pc' = "poll"
    /\ UNCHANGED inputs
    /\ UNCHANGED << exc, out, launch_response, instance_data, continue_loop,
                    request, network_used >>
    /\ UNCHANGED utilvars

\* line 290: time.sleep(2)
Sleep ==
    /\ pc = "sleep"
    /\ calls' = Append(calls, SleepCall)
    /\ pc' = "poll"
    /\ UNCHANGED inputs
    /\ UNCHANGED << exc, out, launch_response, instance_data, continue_loop,
                    request, network_used >>
    /\ UNCHANGED utilvars

\* lines 264-274: the SSH key is asked again and the launch is re-attempted
RelaunchCall ==
    /\ pc = "ssh_key_reprompt"
    /\ \E k \in SshKeyInputs :
         /\ ssh_key_name' = k
         /\ launch_instance_call(region_name, desired_instance_type, k,
                                 "await_relaunch")
    /\ out' = Printed("Launching")
    /\ UNCHANGED << exc, api_key, desired_instance_type, region_name,
                    ssh_key_names, filesystem_names, filesystem_name, quantity,
                    number, launch_response, instance_data, continue_loop,
                    request, network_used >>
    /\ UNCHANGED utilvars

\* continue_loop is left True: the inner break returns to line 213
ExitInnerLoopOnly ==
    /\ continue_loop' = TRUE
    /\ pc' = "launch_loop"

\* lines 278-279, 285-286 and 291-292: continue_loop = False, break, break
ExitLoops ==
    /\ continue_loop' = FALSE
    /\ pc' = "done"

\* lines 267-292: the answer to the re-attempt; it is read through the keys
\* success, data and error, and a missing key raises KeyError
RelaunchReturn ==
    /\ pc = "await_relaunch"
    /\ \E r \in LaunchResponses :
         /\ launch_instance_return(r)
         /\ IF r.raised # "no"
            THEN Raise(r.raised)
                 /\ UNCHANGED << out, launch_response, continue_loop >>
            ELSE /\ launch_response' = r
                 /\ IF r.success = "absent"
                       \/ (r.success = "truthy" /\ ~ r.data)
                       \/ (r.success = "falsy" /\ ~ r.error.present)
                    THEN Raise("KeyError") /\ UNCHANGED << out, continue_loop >>
                    ELSE /\ out' = IF r.success = "truthy"
                                   THEN Printed("Launch response:")
                                   ELSE PrintedError(r.error)
                         /\ ExitLoops
                         /\ UNCHANGED exc
    /\ UNCHANGED inputs
    /\ UNCHANGED << instance_data, request, network_used >>
    /\ UNCHANGED utilvars

Next ==
    \/ ApiKeyInput
    \/ InstanceTypeInput
    \/ RegionInput
    \/ GetSshKeys
    \/ SshKeyInput
    \/ UseFilesystemInput
    \/ FilesystemNameInput
    \/ QuantityInput
    \/ FallbackLaunchCall
    \/ FallbackLaunchReturn
    \/ AttemptLaunchCall
    \/ AttemptLaunchReturn
    \/ PollCapacity
    \/ Sleep
    \/ RelaunchCall
    \/ RelaunchReturn

Spec == Init /\ [][Next]_vars

\* ----------------------------------------- the catalog helpers on their own
\* helper calls per run
MaxLookups == 5

LookupInputs ==
    DOMAIN INSTANCE_TYPES_AND_REGIONS
    \cup {"gpu_9x_bogus", "", "GPU_1X_A10", "us-east-1", "Instance type not found"}

\* line 58 written as INSTANCE_TYPES_AND_REGIONS.setdefault(instance_type, [])
catalog_after_setdefault(cat, instance_type) ==
    [ k \in DOMAIN cat \cup {instance_type} |->
        IF k \in DOMAIN cat THEN cat[k] ELSE <<>> ]

\* line 58: dict.get only reads the dict
catalog_after_get(cat, instance_type) == cat

\* lines 56-62 called with one string
CallGetRegions ==
    /\ n_lookups < MaxLookups
    /\ \E t \in LookupInputs :
         /\ lookup' = [ fn |-> "get_regions_for_instance_type", arg |-> t,
                        result |-> get_regions_for_instance_type(t),
                        types |-> <<>> ]
         /\ catalog' = catalog_after_get(catalog, t)
    /\ n_lookups' = n_lookups + 1
    /\ UNCHANGED << mainvars, gpuvars >>

\* lines 51-53
CallGetInstanceTypes ==
    /\ n_lookups < MaxLookups
    /\ lookup' = [ fn |-> "get_instance_types", arg |-> "",
                   result |-> NoResult, types |-> get_instance_types ]
    /\ n_lookups' = n_lookups + 1
    /\ UNCHANGED << catalog, mainvars, gpuvars >>

NextCatalog ==
    \/ CallGetRegions
    \/ CallGetInstanceTypes

SpecCatalog == Init /\ [][NextCatalog]_vars

\* ------------------------------------------------------ pytorch_gpu_test.py
\* characters of the output of nvidia-smi -L
MaxSmiLen == 4
\* devices torch.cuda.device_count() may report
MaxGpus == 2

RECURSIVE SeqsUpTo(_, _)
SeqsUpTo(S, n) ==
    IF n = 0 THEN { <<>> }
    ELSE SeqsUpTo(S, n - 1)
         \cup { Append(q, c) : q \in SeqsUpTo(S, n - 1), c \in S }

\* "G" stands for any printing character of a line such as "GPU 0: ..."
SmiOutputs == SeqsUpTo({"G", " ", "\n"}, MaxSmiLen)

\* str.split("\n"): the pieces between newlines; one (empty) piece for ""
RECURSIVE split(_)
split(s) ==
    IF \E i \in 1..Len(s) : s[i] = "\n"
    THEN LET i == CHOOSE i \in 1..Len(s) :
                     s[i] = "\n" /\ \A j \in 1..(i - 1) : s[j] # "\n"
         IN  << SubSeq(s, 1, i - 1) >> \o split(SubSeq(s, i + 1, Len(s)))
    ELSE << s >>

\* lines 11-18: the count of lines of the output, 0 when the query raised
get_gpu_count(raised, stdout) ==
    IF raised THEN 0 ELSE Len(split(strip(stdout)))

NO_GPUS == "No GPUs available. Make sure NVIDIA drivers are properly installed."
NOT_ALL_GPUS == "Not all GPUs are being utilized by PyTorch."
ALL_UTILIZED == "All GPUs are utilized."

\* lines 23-24: global_device_count = get_gpu_count()
GetGpuCount ==
    /\ gpu_pc = "get_gpu_count"
    /\ \E raised \in BOOLEAN, stdout \in SmiOutputs :
         /\ raised => stdout = <<>>
         /\ smi_raised' = raised
         /\ smi_stdout' = stdout
         /\ global_device_count' = get_gpu_count(raised, stdout)
    /\ gpu_out' = "Number of available GPUs:"
    /\ gpu_pc' = "device_count"
    /\ UNCHANGED << cuda_device_count, gpu_i, mainvars, catvars >>

\* lines 27-43: torch.cuda.device_count() and the two early returns
DeviceCount ==
    /\ gpu_pc = "device_count"
    /\ \E c \in 0..MaxGpus :
         /\ cuda_device_count' = c
         /\ IF global_device_count = 0
            THEN gpu_out' = NO_GPUS /\ gpu_pc' = "done"
            ELSE IF global_device_count # c
            THEN gpu_out' = NOT_ALL_GPUS /\ gpu_pc' = "done"
            ELSE gpu_out' = "Testing GPU utilization..." /\ gpu_pc' = "testing"
    /\ UNCHANGED << smi_stdout, smi_raised, global_device_count, gpu_i,
                    mainvars, catvars >>

\* lines 44-58: one iteration of the device loop
UseGpu ==
    /\ gpu_pc = "testing"
    /\ gpu_i < cuda_device_count
    /\ \E result \in {"ok", "synchronize raised", "computation raised"} :
         CASE result = "ok" ->
                /\ gpu_i' = gpu_i + 1
                /\ gpu_out' = "Using GPU"
                /\ UNCHANGED gpu_pc
           [] result = "synchronize raised" ->
                /\ gpu_out' = "GPU is not being utilized correctly."
                /\ gpu_pc' = "done"
                /\ UNCHANGED gpu_i
           [] result = "computation raised" ->
                /\ gpu_out' = "Using GPU"
                /\ gpu_pc' = "crashed"
                /\ UNCHANGED gpu_i
    /\ UNCHANGED << smi_stdout, smi_raised, global_device_count,
                    cuda_device_count, mainvars, catvars >>

\* line 60: the loop ran over every device
AllUtilized ==
    /\ gpu_pc = "testing"
    /\ gpu_i = cuda_device_count
    /\ gpu_out' = ALL_UTILIZED
    /\ gpu_pc' = "done"
    /\ UNCHANGED << smi_stdout, smi_raised, global_device_count,
                    cuda_device_count, gpu_i, mainvars, catvars >>

NextGpu ==
    \/ GetGpuCount
    \/ DeviceCount
    \/ UseGpu
    \/ AllUtilized

SpecGpu == Init /\ [][NextGpu]_vars

\* ------------------------------------------------------------ properties
LaunchIdx == { i \in 1..Len(calls) : calls[i].op = "launch" }
PollIdx == { i \in 1..Len(calls) : calls[i].op = "poll" }
\* launches issued from the polling loop: the call before them is a poll
RelaunchIdx == { i \in LaunchIdx : i > 1 /\ calls[i - 1].op = "poll" }
FirstLaunch == CHOOSE i \in LaunchIdx : \A j \in LaunchIdx : i <= j

Answered(i) == calls[i].resp.raised = "no"
Pending(i) == calls[i].resp.raised = "pending"
TransportFailed(i) == calls[i].resp.raised \in {"Timeout", "JSONDecodeError"}
\* the three outcomes of the response contract
IsSuccess(r) == r.data /\ ~ r.error.present
IsInsufficient(r) ==
    ~ r.data /\ r.error.present /\ r.error.code = Str(INSUFFICIENT_CAPACITY)
IsOtherError(r) ==
    ~ r.data /\ r.error.present /\ r.error.code # Str(INSUFFICIENT_CAPACITY)

Succeeded == pc = "done" /\ out = Printed("Launch response:")
FailedWith(e) == pc = "done" /\ out = PrintedError(e)

\* C1: when the first launch call of the loop is answered with an error whose
\* code is not insufficient-capacity, the loop has ended reporting that error,
\* no further launch was issued and no capacity poll was made.
C1_TerminalErrorOnFirstLaunch ==
    (LaunchIdx # {} /\ Answered(FirstLaunch)
       /\ calls[FirstLaunch].resp.error.present
       /\ calls[FirstLaunch].resp.error.code # Str(INSUFFICIENT_CAPACITY))
    => /\ FailedWith(calls[FirstLaunch].resp.error)
       /\ PollIdx = {}
       /\ Len(calls) = 1

\* C1 witness: the region was left empty and the first launch was refused
\* with invalid-parameters
C1_Witness ==
    /\ request.region = ""
    /\ Len(calls) = 1
    /\ Answered(1)
    /\ calls[1].resp.error = [present |-> TRUE, code |-> Str(INVALID_PARAMETERS)]
    /\ pc = "done"

\* C2: with no region entered and the first launch answered
\* insufficient-capacity, a launch that follows a poll whose snapshot lists
\* regions with capacity for the requested type goes to the first listed region.
C2_NextLaunchUsesFirstPolledRegion ==
    \A i \in RelaunchIdx :
       (/\ request.region = ""
        /\ Answered(FirstLaunch) /\ IsInsufficient(calls[FirstLaunch].resp)
        /\ regions_available(instance_data, request.instance_type) # <<>>)
       => calls[i].req.region_name =
              Head(regions_available(instance_data, request.instance_type))

\* C3: once a launch call was answered with data (Success), no later launch
\* call exists and a finished run is in the Succeeded outcome.
C3_NoLaunchAfterSuccess ==
    \A i \in LaunchIdx :
       (Answered(i) /\ IsSuccess(calls[i].resp))
       => /\ \A j \in LaunchIdx : j <= i
          /\ (pc \in {"done", "crashed"} => Succeeded)

\* C4: a re-attempted launch answered insufficient-capacity neither ends the
\* run nor prints an error: the loop goes on to sleep and poll.
C4_RelaunchInsufficientKeepsPolling ==
    \A i \in RelaunchIdx :
       (Answered(i) /\ IsInsufficient(calls[i].resp))
       => /\ pc \in {"sleep", "poll"}
          /\ out.msg # "Error launching instance:"

\* C5: a re-attempted launch answered with data ends the run in Success, one
\* answered with another error ends it in failure carrying that error.
C5_RelaunchBranchesOnDataAndError ==
    \A i \in RelaunchIdx :
       /\ (Answered(i) /\ IsSuccess(calls[i].resp)) => Succeeded
       /\ (Answered(i) /\ IsOtherError(calls[i].resp))
             => FailedWith(calls[i].resp.error)

\* C6: every launch call carries the instance type and quantity that were
\* entered and validated, and neither variable changes after input collection.
C6_TypeAndQuantityUnchanged ==
    /\ \A i \in LaunchIdx :
          /\ calls[i].req.instance_type_name = request.instance_type
          /\ calls[i].req.quantity = request.quantity
    /\ request # NoRequest
          => /\ desired_instance_type = request.instance_type
             /\ quantity = request.quantity

\* C7: a re-attempted launch goes to a region of the preceding snapshot's
\* list: the pinned region if it is in the list, else the first listed one.
C7_RelaunchRegionHasCapacity ==
    \A i \in RelaunchIdx :
       LET regs == regions_available(instance_data, desired_instance_type)
       IN  /\ InList(calls[i].req.region_name, regs)
           /\ calls[i].req.region_name =
                 IF request.region # "" /\ InList(request.region, regs)
                 THEN request.region ELSE Head(regs)

\* C8: a poll whose snapshot has no details or no region with capacity for
\* the instance type of the loop is followed by a sleep and then a poll, and a
\* poll is followed by at most one launch call.
C8_PollingStepNeverLaunches ==
    /\ \A i \in PollIdx :
          /\ (calls[i].regions = <<>> /\ i < Len(calls))
                => calls[i + 1].op = "sleep"
          /\ (calls[i].regions = <<>> /\ i + 1 < Len(calls))
                => calls[i + 2].op = "poll"
          /\ Cardinality({ j \in LaunchIdx : j > i }) <= 1
    /\ (calls # <<>> /\ calls[Len(calls)].op = "poll" /\ exc = "none"
          /\ regions_available(instance_data, desired_instance_type) = <<>>)
       => pc = "sleep"
    /\ \A i \in RelaunchIdx : calls[i - 1].regions # <<>>

\* C8 witness: two polls found nothing, each was followed by a sleep, and the
\* third reported capacity and was followed by one launch
C8_Witness ==
    /\ Len(calls) >= 6
    /\ calls[Len(calls)].op = "launch"
    /\ calls[Len(calls) - 1].op = "poll"
    /\ calls[Len(calls) - 2].op = "sleep"
    /\ calls[Len(calls) - 3].op = "poll"
    /\ calls[Len(calls) - 3].regions = <<>>
    /\ HasDetails(instance_data, desired_instance_type)

\* C9: at most one launch request is pending, and it is the latest one.
C9_OneLaunchInFlight ==
    /\ Cardinality({ i \in LaunchIdx : Pending(i) }) <= 1
    /\ \A i \in LaunchIdx : Pending(i) => \A j \in LaunchIdx : j <= i

\* C9 witness: a third launch is in flight after two answered ones
C9_Witness ==
    /\ Cardinality(LaunchIdx) = 3
    /\ Pending(Len(calls))
    /\ Cardinality({ i \in LaunchIdx : Answered(i) }) = 2

\* C10: a launch or poll that failed in transport ends the loop with an error
\* report like a provider error, without a crash and without another call.
C10_TransportFailureIsReported ==
    \A i \in 1..Len(calls) :
       TransportFailed(i)
       => /\ pc = "done"
          /\ out.msg = "Error launching instance:"
          /\ i = Len(calls)

\* C11: the loop has no attempt limit: a finished run (Succeeded or Failed)
\* always ends on an answered launch, a poll that reports no region with
\* capacity for the instance type of the loop goes to the sleep, and the sleep
\* goes back to the poll.
C11_PollingNeverEndsOnItsOwn ==
    /\ [](pc = "done" => /\ calls # <<>>
                         /\ calls[Len(calls)].op = "launch"
                         /\ Answered(Len(calls)))
    /\ [][(/\ pc = "poll"
           /\ exc' = "none"
           /\ regions_available(instance_data', desired_instance_type) = <<>>)
          => pc' = "sleep"]_vars
    /\ [][pc = "sleep" => pc' = "poll"]_vars

\* C11 witness: every poll allowed by the bound found no capacity and the
\* loop is about to poll again
C11_Witness ==
    /\ pc = "poll"
    /\ NumPolls = MaxPolls
    /\ calls[Len(calls)].op = "sleep"
    /\ \A i \in PollIdx : calls[i].regions = <<>>

\* C14: every launch call carries the one SSH key name that was validated
\* against the provider's list during input collection, and it is not empty.
C14_SameValidatedSshKey ==
    \A i \in LaunchIdx :
       /\ calls[i].req.ssh_key_names = << request.ssh_key_name >>
       /\ request.ssh_key_name # ""
       /\ InList(request.ssh_key_name, ssh_key_names)

\* C15: every launch call after the first has, between it and the launch
\* call before it, a poll that reported a region with capacity.
C15_PollBetweenLaunches ==
    \A i \in LaunchIdx : \A h \in LaunchIdx :
       (h < i /\ \A k \in LaunchIdx : ~ (h < k /\ k < i))
       => \E j \in PollIdx : h < j /\ j < i /\ calls[j].regions # <<>>

\* C16: two consecutive polls are separated by exactly one sleep of 2
\* seconds, and every sleep stands between two polls: none before the first
\* poll, none after a launch, none before the end of the run.
C16_OneSleepBetweenPolls ==
    /\ \A i \in 1..Len(calls) :
          calls[i].op = "sleep"
          => /\ calls[i].secs = 2
             /\ i > 1 /\ calls[i - 1].op = "poll"
             /\ i < Len(calls) => calls[i + 1].op = "poll"
    /\ \A i \in PollIdx : \A j \in PollIdx :
          (i < j /\ \A k \in PollIdx : ~ (i < k /\ k < j))
          => j = i + 2 /\ calls[i + 1].op = "sleep"
    /\ (pc \in {"done", "crashed"} /\ calls # <<>>)
          => calls[Len(calls)].op # "sleep"

\* C16 witness: a finished run with two polls, one sleep between them and a
\* launch after the second
C16_Witness ==
    /\ pc = "done"
    /\ NumPolls = 2
    /\ Cardinality({ i \in 1..Len(calls) : calls[i].op = "sleep" }) = 1
    /\ calls[Len(calls)].op = "launch"

\* C17: a launch call with no poll before it sends a region that the static
\* catalog lists for its instance type.
C17_FirstLaunchPairFromCatalog ==
    \A i \in LaunchIdx :
       (\A j \in PollIdx : j > i)
       => /\ calls[i].req.instance_type_name \in DOMAIN INSTANCE_TYPES_AND_REGIONS
          /\ InList(calls[i].req.region_name,
                    INSTANCE_TYPES_AND_REGIONS[calls[i].req.instance_type_name])

\* C18: the body of the outer loop is entered once, from input collection
\* only, and a run issues at most 2 launch calls with a pinned region and at
\* most 3 with an empty one.
C18_LaunchCallsBounded ==
    /\ [](Cardinality(LaunchIdx) <= IF request.region = "" THEN 3 ELSE 2)
    /\ [][pc' = "launch_loop" => pc \in {"quantity_input", "launch_loop"}]_vars

\* C18 witness: a finished run with an empty region, three launch calls and
\* all the polls the bound allows
C18_Witness ==
    /\ pc = "done"
    /\ request.region = ""
    /\ Cardinality(LaunchIdx) = 3
    /\ NumPolls = MaxPolls

\* a typed quantity that is a number of 1..9, and one that is a number
\* outside 1..9
\* a typed line that is a numeral: decimal digits only
IsNumeral(q) == Len(q) > 0 /\ \A i \in 1..Len(q) : IsDecimalDigit(q[i])
\* the numeral denotes a number of 1..9: zeros, then one digit that is not zero
InRange(q) ==
    /\ IsNumeral(q)
    /\ \A i \in 1..(Len(q) - 1) : DigitValue[q[i]] = 0
    /\ DigitValue[q[Len(q)]] \in 1..9
\* the numeral denotes a number outside 1..9, such as 0 or 10
OutsideRange(q) == IsNumeral(q) /\ ~ InRange(q)
QuantityRejectedMessage ==
    Printed("Invalid input. Please enter a number between 1 and 9.")
\* the quantity prompt has just refused what was typed
QuantityRejected ==
    pc = "quantity_input" /\ out = QuantityRejectedMessage
                          /\ OutsideRange(quantity)

\* C12: a quantity outside 1..9 (for example 0 or 10) is rejected and
\* re-prompted, the rejection happens before any launch call or capacity poll
\* (the network calls of the launch loop), and no launch call carries a
\* quantity outside 1..9.
C12_OutsideRangeIsReprompted ==
    /\ [][(pc = "quantity_input" /\ OutsideRange(quantity'))
          => /\ pc' = "quantity_input"
             /\ out' = QuantityRejectedMessage
             /\ request' = NoRequest
             /\ calls' = <<>>]_vars
    /\ [](QuantityRejected => calls = <<>>)
    /\ [](\A i \in LaunchIdx : InRange(calls[i].req.quantity))

\* C13: for a string that is not a key of the catalog
\* get_regions_for_instance_type returns the not-found text, for a key it
\* returns that key's region list; get_instance_types returns the keys; no
\* helper call uses the network or changes the catalog.
C13_CatalogHelpers ==
    /\ catalog = INSTANCE_TYPES_AND_REGIONS
    /\ ~ network_used
    /\ lookup.fn = "get_regions_for_instance_type"
          => IF lookup.arg \in DOMAIN INSTANCE_TYPES_AND_REGIONS
             THEN /\ lookup.result.found
                  /\ lookup.result.regions = INSTANCE_TYPES_AND_REGIONS[lookup.arg]
             ELSE lookup.result = [found |-> FALSE, regions |-> <<>>,
                                   text |-> "Instance type not found"]
    /\ lookup.fn = "get_instance_types"
          => { lookup.types[i] : i \in 1..Len(lookup.types) }
                = DOMAIN INSTANCE_TYPES_AND_REGIONS

\* C13 witness: an unknown type was looked up after earlier helper calls
C13_Witness ==
    /\ n_lookups >= 2
    /\ lookup.fn = "get_regions_for_instance_type"
    /\ lookup.arg = "gpu_9x_bogus"
    /\ lookup.result.text = NOT_FOUND

\* C19: when nvidia-smi -L ran and printed no GPU line, the count is 0 and
\* main ends with "No GPUs available"; "All GPUs are utilized." is printed
\* only with a non-zero driver count equal to the runtime's count and every
\* device synchronised.
C19_GpuDiagnostic ==
    /\ (gpu_pc # "get_gpu_count" /\ ~ smi_raised /\ strip(smi_stdout) = <<>>)
          => /\ global_device_count = 0
             /\ gpu_pc = "done" => gpu_out = NO_GPUS
    /\ gpu_out = ALL_UTILIZED
          => /\ global_device_count # 0
             /\ global_device_count = cuda_device_count
             /\ gpu_i = cuda_device_count

====
